---------------------------- MODULE Spec2Model ----------------------------
(***************************************************************************)
(* Terminal autocomplete (PgAutocomplete) of solana-playground:            *)
(*   client/src/utils/pg/terminal/autocomplete.ts                          *)
(*                                                                         *)
(* A JavaScript string is a sequence of one-character strings, so that     *)
(* startsWith, the tokenizer and the locale order are computed.  A         *)
(* specification object is the sequence of its entries in the order        *)
(* Object.entries enumerates them: integer keys ascending, then the string *)
(* keys in insertion order.  `undefined` read from tokens[i] is the empty  *)
(* string: every use in the source is a truthiness test, a startsWith      *)
(* guarded by one, or a === against a non-empty key.                       *)
(***************************************************************************)
EXTENDS Integers, Sequences, FiniteSets

VARIABLES
  arrays,     \* heap of handler arrays: array id -> sequence of handlers
  _handlers,  \* this._handlers: the id of the active handler array
  restores,   \* the restore closures handed out: closure id -> captured array id
  log,        \* history of registry calls, with the list active before each
  call,       \* the last API call: its arguments, locals and return value
  walk        \* one run of recursivelyGetCandidates, as a call stack

vars == <<arrays, _handlers, restores, log, call, walk>>

-----------------------------------------------------------------------------
(* Bounds of the exploration *)

MaxTokens == 3

MaxCalls == 4

MaxOverrides == 2

MaxWalkTokens == 3

-----------------------------------------------------------------------------
(* Strings *)

Range(s) == {s[k] : k \in DOMAIN s}

NoDuplicates(s) == \A j, k \in DOMAIN s : j # k => s[j] # s[k]

startsWith(s, p) == Len(p) <= Len(s) /\ SubSeq(s, 1, Len(p)) = p

\* Collation rank of the characters the model uses: punctuation before letters
CharRank(c) ==
  CASE c = "-" -> 0
    [] c = "a" -> 1  [] c = "b" -> 2  [] c = "c" -> 3  [] c = "d" -> 4
    [] c = "e" -> 5  [] c = "f" -> 6  [] c = "g" -> 7  [] c = "h" -> 8
    [] c = "i" -> 9  [] c = "l" -> 12 [] c = "n" -> 14 [] c = "o" -> 15
    [] c = "p" -> 16 [] c = "r" -> 18 [] c = "t" -> 20 [] c = "u" -> 21
    [] OTHER -> 30

RECURSIVE localeCompare(_, _)
\* a.localeCompare(b): negative, zero or positive
localeCompare(a, b) ==
  IF a = <<>> THEN (IF b = <<>> THEN 0 ELSE -1)
  ELSE IF b = <<>> THEN 1
  ELSE IF CharRank(Head(a)) < CharRank(Head(b)) THEN -1
  ELSE IF CharRank(Head(a)) > CharRank(Head(b)) THEN 1
  ELSE localeCompare(Tail(a), Tail(b))

\* the words of the model
anchor  == <<"a", "n", "c", "h", "o", "r">>
idl     == <<"i", "d", "l">>
init    == <<"i", "n", "i", "t">>
upgrade == <<"u", "p", "g", "r", "a", "d", "e">>
foo     == <<"f", "o", "o">>
bar     == <<"b", "a", "r">>
dash    == <<"-">>
optF    == <<"-", "f">>
optO    == <<"-", "o">>
flag    == <<"-", "-", "f", "l", "a", "g">>
partF   == <<"f">>
key0    == <<"0">>
key1    == <<"1">>

-----------------------------------------------------------------------------
(* ./utils and ../common: collaborators of autocomplete.ts *)

getIsOption(token) == Len(token) > 0 /\ token[1] = "-"

isWhitespace(c) == c = " "

trim(input) == SelectSeq(input, LAMBDA c : ~isWhitespace(c))

RECURSIVE parse(_)
\* split the line at whitespace; empty pieces are no tokens
parse(input) ==
  IF input = <<>> THEN <<>>
  ELSE IF isWhitespace(Head(input)) THEN parse(Tail(input))
  ELSE LET rest == parse(Tail(input))
       IN  IF Len(input) > 1 /\ ~isWhitespace(input[2])
           THEN <<(<<Head(input)>> \o Head(rest))>> \o Tail(rest)
           ELSE <<(<<Head(input)>>)>> \o rest

hasTrailingWhitespace(input) ==
  Len(input) > 0 /\ isWhitespace(input[Len(input)])

DigitVal(c) ==
  CASE c = "0" -> 0 [] c = "1" -> 1 [] c = "2" -> 2 [] c = "3" -> 3
    [] OTHER -> 9

isInt(key) == key # <<>> /\ \A k \in DOMAIN key : key[k] \in {"0", "1", "2", "3"}

RECURSIVE toNumber(_)
\* unary plus on an integer key
toNumber(key) ==
  IF key = <<>> THEN 0
  ELSE 10 * toNumber(SubSeq(key, 1, Len(key) - 1)) + DigitVal(key[Len(key)])

RECURSIVE toUniqueArray(_)
\* [...new Set(arr)]: the first occurrence of each entry, in order
toUniqueArray(arr) ==
  IF arr = <<>> THEN <<>>
  ELSE LET init_ == toUniqueArray(SubSeq(arr, 1, Len(arr) - 1))
           last == arr[Len(arr)]
       IN  IF last \in Range(init_) THEN init_ ELSE Append(init_, last)

\* tokens[i] with the source's 0-based index
At(tokens, i) == IF i + 1 \in DOMAIN tokens THEN tokens[i + 1] ELSE <<>>

\* tokens.slice(0, i)
slice0(tokens, i) == SubSeq(tokens, 1, IF i < Len(tokens) THEN i ELSE Len(tokens))

-----------------------------------------------------------------------------
(* Specification objects *)

\* an integer-keyed entry: the values of a positional argument
Arg(k, values) ==
  [key |-> k, args |-> values, takeValue |-> FALSE, other |-> <<>>, sub |-> <<>>]

\* an option entry: obj[key] = { takeValue, other }
Opt(k, tv, o) ==
  [key |-> k, args |-> <<>>, takeValue |-> tv, other |-> o, sub |-> <<>>]

\* a subcommand entry: obj[key] = nested object
Sub(k, node) ==
  [key |-> k, args |-> <<>>, takeValue |-> FALSE, other |-> <<>>, sub |-> node]

entries(obj) == obj

keys(obj) == [k \in DOMAIN obj |-> obj[k].key]

\* obj[key]
Lookup(obj, k) == LET hit == SelectSeq(obj, LAMBDA e : e.key = k) IN hit[1]

\* obj = { ...obj }; delete obj[other]
Without(obj, o) == SelectSeq(obj, LAMBDA e : e.key # o)

\* the reduce that keeps the option-keyed entries
optsOf(obj) == SelectSeq(obj, LAMBDA e : getIsOption(e.key))

argAmount(obj) == Len(SelectSeq(keys(obj), isInt))

NoStep(obj) == [push |-> <<>>, recurse |-> FALSE, obj |-> obj, into |-> <<>>, next |-> 0]

\* EntryStep with the alias left in obj after an option is matched
EntryStep_keepAlias(e, obj, i, tokens, index) ==
  IF isInt(e.key)
  THEN IF getIsOption(At(tokens, i)) THEN NoStep(obj)
       ELSE IF toNumber(e.key) = index - i
       THEN LET token == At(tokens, index)
                filteredArgs ==
                  SelectSeq(e.args, LAMBDA arg : token = <<>> \/ startsWith(arg, token))
            IN  [NoStep(obj) EXCEPT !.push = filteredArgs]
       ELSE [NoStep(obj) EXCEPT !.recurse = TRUE,
                                !.into = optsOf(obj),
                                !.next = i + argAmount(obj)]
  ELSE IF At(tokens, i) = <<>> \/ startsWith(e.key, At(tokens, i))
  THEN LET pushKey ==
             IF i = index /\ e.key \notin Range(slice0(tokens, i))
             THEN <<e.key>> ELSE <<>>
       IN  IF e.key = At(tokens, i)
           THEN IF getIsOption(e.key)
                THEN LET desc == Lookup(obj, e.key)
                     IN  [push |-> pushKey, recurse |-> TRUE, obj |-> obj,
                          into |-> obj,
                          next |-> IF desc.takeValue THEN i + 2 ELSE i + 1]
                ELSE [push |-> pushKey, recurse |-> TRUE, obj |-> obj,
                      into |-> e.sub, next |-> i + 1]
           ELSE [NoStep(obj) EXCEPT !.push = pushKey]
  ELSE NoStep(obj)

\* EntryStep with the arguments counted in opts, which has none, so that the
\* options after the arguments are looked up at the same offset again
EntryStep_countArgsOfOpts(e, obj, i, tokens, index) ==
  IF isInt(e.key)
  THEN IF getIsOption(At(tokens, i)) THEN NoStep(obj)
       ELSE IF toNumber(e.key) = index - i
       THEN LET token == At(tokens, index)
                filteredArgs ==
                  SelectSeq(e.args, LAMBDA arg : token = <<>> \/ startsWith(arg, token))
            IN  [NoStep(obj) EXCEPT !.push = filteredArgs]
       ELSE [NoStep(obj) EXCEPT !.recurse = TRUE,
                                !.into = optsOf(obj),
                                !.next = i + argAmount(optsOf(obj))]
  ELSE IF At(tokens, i) = <<>> \/ startsWith(e.key, At(tokens, i))
  THEN LET pushKey ==
             IF i = index /\ e.key \notin Range(slice0(tokens, i))
             THEN <<e.key>> ELSE <<>>
       IN  IF e.key = At(tokens, i)
           THEN IF getIsOption(e.key)
                THEN LET desc == Lookup(obj, e.key)
                         obj2 == IF desc.other # <<>>
                                 THEN Without(obj, desc.other) ELSE obj
                     IN  [push |-> pushKey, recurse |-> TRUE, obj |-> obj2,
                          into |-> obj2,
                          next |-> IF desc.takeValue THEN i + 2 ELSE i + 1]
                ELSE [push |-> pushKey, recurse |-> TRUE, obj |-> obj,
                      into |-> e.sub, next |-> i + 1]
           ELSE [NoStep(obj) EXCEPT !.push = pushKey]
  ELSE NoStep(obj)

\* one iteration of the loop over the entries: what it pushes, the recursive
\* call it makes (at most one, after its pushes) and the obj it leaves
EntryStep(e, obj, i, tokens, index) ==
  IF isInt(e.key)
  THEN IF getIsOption(At(tokens, i)) THEN NoStep(obj)
       ELSE IF toNumber(e.key) = index - i
       THEN LET token == At(tokens, index)
                filteredArgs ==
                  SelectSeq(e.args, LAMBDA arg : token = <<>> \/ startsWith(arg, token))
            IN  [NoStep(obj) EXCEPT !.push = filteredArgs]
       ELSE [NoStep(obj) EXCEPT !.recurse = TRUE,
                                !.into = optsOf(obj),
                                !.next = i + argAmount(obj)]
  ELSE IF At(tokens, i) = <<>> \/ startsWith(e.key, At(tokens, i))
  THEN LET pushKey ==
             IF i = index /\ e.key \notin Range(slice0(tokens, i))
             THEN <<e.key>> ELSE <<>>
       IN  IF e.key = At(tokens, i)
           THEN IF getIsOption(e.key)
                THEN LET desc == Lookup(obj, e.key)
                         obj2 == IF desc.other # <<>>
                                 THEN Without(obj, desc.other) ELSE obj
                     IN  [push |-> pushKey, recurse |-> TRUE, obj |-> obj2,
                          into |-> obj2,
                          next |-> IF desc.takeValue THEN i + 2 ELSE i + 1]
                ELSE [push |-> pushKey, recurse |-> TRUE, obj |-> obj,
                      into |-> e.sub, next |-> i + 1]
           ELSE [NoStep(obj) EXCEPT !.push = pushKey]
  ELSE NoStep(obj)

RECURSIVE recursivelyGetCandidates(_, _, _, _), ForEntries(_, _, _, _, _, _)
recursivelyGetCandidates(obj, i, tokens, index) ==
  IF i > index THEN <<>>
  ELSE ForEntries(entries(obj), 1, obj, i, tokens, index)

ForEntries(ents, k, obj, i, tokens, index) ==
  IF k > Len(ents) THEN <<>>
  ELSE LET step == EntryStep(ents[k], obj, i, tokens, index)
       IN  step.push
           \o (IF step.recurse
               THEN recursivelyGetCandidates(step.into, step.next, tokens, index)
               ELSE <<>>)
           \o ForEntries(ents, k + 1, step.obj, i, tokens, index)

-----------------------------------------------------------------------------
(* Handlers *)

\* a specification object given to the constructor, adapted at lines 14-121
ObjectHandler(obj) == [kind |-> "object", obj |-> obj, candidates |-> <<>>]

\* a ready-made function; the model's functions return a fixed list
FunctionHandler(out) == [kind |-> "function", obj |-> <<>>, candidates |-> out]

\* a ready-made function that throws on every call
ThrowingHandler == [kind |-> "throws", obj |-> <<>>, candidates |-> <<>>]

\* the closure temporarilySetCandidates builds
CandidatesHandler(candidates) ==
  [kind |-> "candidates", obj |-> <<>>, candidates |-> candidates]

\* cb(tokens, index): whether it threw, and what it returned
Invoke(cb, tokens, index) ==
  CASE cb.kind = "object" ->
         [threw |-> FALSE, out |-> recursivelyGetCandidates(cb.obj, 0, tokens, index)]
    [] cb.kind = "candidates" ->
         LET token == At(tokens, index)
         IN  [threw |-> FALSE,
              out |-> SelectSeq(cb.candidates,
                                LAMBDA c : token = <<>> \/ startsWith(c, token))]
    [] cb.kind = "function" -> [threw |-> FALSE, out |-> cb.candidates]
    [] OTHER -> [threw |-> TRUE, out |-> <<>>]

-----------------------------------------------------------------------------
(* getCandidates *)

\* TargetIndex without the step past the last token on trailing whitespace
TargetIndex_ignoreTrailing(input, tokens) ==
  IF trim(input) = <<>> THEN 0 ELSE Len(tokens) - 1

TargetIndex(input, tokens) ==
  IF trim(input) = <<>> THEN 0
  ELSE IF hasTrailingWhitespace(input) THEN (Len(tokens) - 1) + 1
  ELSE Len(tokens) - 1

\* CollectCandidates without the try/catch: an exception of a handler escapes
CollectCandidates_rethrow(hs, tokens, index) ==
  LET outs == [k \in DOMAIN hs |-> Invoke(hs[k], tokens, index)]
      first == IF \E k \in DOMAIN hs : outs[k].threw
               THEN (CHOOSE k \in DOMAIN hs :
                       outs[k].threw /\ \A j \in 1..(k - 1) : ~outs[j].threw) - 1
               ELSE Len(hs)
      RECURSIVE Cat(_)
      Cat(n) == IF n = 0 THEN <<>> ELSE Cat(n - 1) \o outs[n].out
  IN  [acc |-> Cat(first), threw |-> first < Len(hs), logged |-> 0]

RECURSIVE CollectCandidates(_, _, _)
\* the reduce over this._handlers: the accumulator, whether an exception
\* escaped, and how many were logged
CollectCandidates(hs, tokens, index) ==
  IF hs = <<>> THEN [acc |-> <<>>, threw |-> FALSE, logged |-> 0]
  ELSE LET before == CollectCandidates(SubSeq(hs, 1, Len(hs) - 1), tokens, index)
           r == Invoke(hs[Len(hs)], tokens, index)
       IN  IF r.threw
           THEN [before EXCEPT !.logged = @ + 1]
           ELSE [before EXCEPT !.acc = @ \o r.out]

\* UniqueCandidates without the deduplication
UniqueCandidates_keepAll(candidates) == candidates

UniqueCandidates(candidates) == toUniqueArray(candidates)

\* the comparator given to sort
compareFn(a, b) ==
  IF getIsOption(a) /\ ~getIsOption(b) THEN 1
  ELSE IF getIsOption(b) THEN -1
  ELSE localeCompare(a, b)

RECURSIVE SortedAfter(_, _, _)
\* the orders of the positions `rest` of arr that may follow position `prev`
SortedAfter(arr, prev, rest) ==
  IF rest = {} THEN {<<>>}
  ELSE UNION {{<<arr[j]>> \o s : s \in SortedAfter(arr, j, rest \ {j})} :
              j \in {k \in rest : prev = 0 \/ compareFn(arr[prev], arr[k]) <= 0}}

\* Array.prototype.sort(compareFn): a permutation in which no entry is followed
\* by one the comparator puts before it.  For a consistent comparator this is
\* the sorted order; where the comparator is inconsistent the order is
\* implementation-defined, and every such permutation is an outcome.
SortOutcomes(arr) == SortedAfter(arr, 0, DOMAIN arr)

\* KeepCandidate with the one test of a leading '-' for every option
KeepCandidate_anyDash(candidate, tokens) ==
  IF getIsOption(candidate)
  THEN LET lastToken == At(tokens, Len(tokens) - 1)
       IN  IF lastToken # <<>>
           THEN startsWith(lastToken, <<"-">>)
           ELSE TRUE
  ELSE TRUE

\* the predicate given to filter
KeepCandidate(candidate, tokens) ==
  IF getIsOption(candidate)
  THEN LET lastToken == At(tokens, Len(tokens) - 1)
       IN  IF lastToken # <<>>
           THEN IF startsWith(candidate, <<"-", "-">>)
                THEN startsWith(lastToken, <<"-", "-">>)
                ELSE IF startsWith(candidate, <<"-">>)
                THEN startsWith(lastToken, <<"-">>)
                ELSE TRUE
           ELSE TRUE
  ELSE TRUE

FilterCandidates(sorted, tokens) ==
  SelectSeq(sorted, LAMBDA candidate : KeepCandidate(candidate, tokens))

NoCall ==
  [op |-> "none", input |-> <<>>, tokens |-> <<>>, index |-> 0,
   collected |-> <<>>, unique |-> <<>>, sorted |-> <<>>, ret |-> <<>>,
   threw |-> FALSE,
   logged |-> 0, closure |-> 0]

GetCandidates(input) ==
  LET tokens == parse(input)
      index == TargetIndex(input, tokens)
      got == CollectCandidates(arrays[_handlers], tokens, index)
      unique == UniqueCandidates(got.acc)
  IN  /\ \E sorted \in SortOutcomes(unique) :
           call' = [NoCall EXCEPT !.op = "getCandidates",
                                  !.input = input,
                                  !.tokens = tokens,
                                  !.index = index,
                                  !.collected = got.acc,
                                  !.unique = IF got.threw THEN <<>> ELSE unique,
                                  !.sorted = IF got.threw THEN <<>> ELSE sorted,
                                  !.ret = IF got.threw THEN <<>>
                                          ELSE FilterCandidates(sorted, tokens),
                                  !.threw = got.threw,
                                  !.logged = got.logged]
      /\ UNCHANGED <<arrays, _handlers, restores, log, walk>>

-----------------------------------------------------------------------------
(* The registry: constructor, temporary overrides and their restore closures *)

AnchorSpec ==
  <<Sub(anchor, <<Sub(idl, <<Sub(init, <<>>), Sub(upgrade, <<>>)>>)>>)>>

NestedSpec ==
  <<Sub(foo, <<Sub(idl, <<>>), Sub(anchor, <<>>)>>),
    Sub(idl, <<Sub(foo, <<Sub(anchor, <<>>), Sub(idl, <<>>)>>)>>)>>

FlagSpec == <<Arg(key0, <<foo, bar>>), Opt(flag, FALSE, <<>>)>>

AliasSpec ==
  <<Arg(key0, <<foo, bar>>), Arg(key1, <<bar>>),
    Opt(optF, FALSE, flag), Opt(flag, FALSE, optF), Opt(optO, TRUE, <<>>)>>

HandlerA == FunctionHandler(<<optO, foo, flag, foo>>)

HandlerB == FunctionHandler(<<bar, idl, foo>>)

\* the arguments the constructor is called with
ConstructorArgs ==
  {<<>>,
   <<ObjectHandler(AnchorSpec)>>,
   <<ObjectHandler(NestedSpec)>>,
   <<ObjectHandler(FlagSpec)>>,
   <<ObjectHandler(AliasSpec)>>,
   <<HandlerA, ObjectHandler(FlagSpec), HandlerB>>,
   <<ThrowingHandler, HandlerB, ObjectHandler(FlagSpec)>>,
   <<HandlerA, ThrowingHandler, HandlerB>>,
   <<HandlerB, HandlerA, ThrowingHandler>>}

\* the handlers and candidate lists the overrides are called with
OverrideHandlers == {HandlerA, HandlerB}

OverrideCandidates == {<<foo, flag, idl>>}

NoWalk == [tokens |-> <<>>, index |-> 0, stack |-> <<>>, done |-> TRUE, result |-> <<>>]

\* the state the constructor leaves
Constructed ==
  /\ \E handlers \in ConstructorArgs : arrays = <<handlers>>
  /\ _handlers = 1
  /\ restores = <<>>
  /\ log = <<>>
  /\ walk = NoWalk

Init ==
  /\ Constructed
  /\ arrays[1] \in {<<ObjectHandler(FlagSpec)>>, <<HandlerB, ThrowingHandler>>}
  /\ call = NoCall

\* SetHandlers appending by a push onto the active array itself
SetHandlers_pushInPlace(op, handler, append) ==
  LET initialHandlers == _handlers
  IN  /\ Len(restores) < MaxOverrides
      /\ Len(log) < MaxCalls
      /\ arrays' = IF append
                   THEN [arrays EXCEPT ![initialHandlers] = @ \o <<handler>>]
                   ELSE Append(arrays, <<handler>>)
      /\ _handlers' = IF append THEN initialHandlers ELSE Len(arrays) + 1
      /\ restores' = Append(restores, initialHandlers)
      /\ log' = Append(log, [op |-> "set", closure |-> Len(restores) + 1,
                             active |-> _handlers, list |-> arrays[_handlers]])
      /\ call' = [NoCall EXCEPT !.op = op, !.closure = Len(restores) + 1]
      /\ UNCHANGED walk

\* what both overrides do once the handler is built
SetHandlers(op, handler, append) ==
  LET initialHandlers == _handlers
  IN  /\ Len(restores) < MaxOverrides
      /\ Len(log) < MaxCalls
      /\ arrays' = Append(arrays, IF append
                                  THEN arrays[initialHandlers] \o <<handler>>
                                  ELSE <<handler>>)
      /\ _handlers' = Len(arrays) + 1
      /\ restores' = Append(restores, initialHandlers)
      /\ log' = Append(log, [op |-> "set", closure |-> Len(restores) + 1,
                             active |-> _handlers, list |-> arrays[_handlers]])
      /\ call' = [NoCall EXCEPT !.op = op, !.closure = Len(restores) + 1]
      /\ UNCHANGED walk

TemporarilySetHandlers(handler, append) ==
  SetHandlers("temporarilySetHandlers", handler, append)

TemporarilySetCandidates(candidates, append) ==
  SetHandlers("temporarilySetCandidates", CandidatesHandler(candidates), append)

\* Restore as the pop of a stack of overrides: the latest capture comes back
Restore_popLatest(c) ==
  /\ c \in DOMAIN restores
  /\ Len(log) < MaxCalls
  /\ _handlers' = restores[Len(restores)]
  /\ log' = Append(log, [op |-> "restore", closure |-> c,
                         active |-> _handlers, list |-> arrays[_handlers]])
  /\ call' = [NoCall EXCEPT !.op = "restore", !.closure = c]
  /\ UNCHANGED <<arrays, restores, walk>>

\* the closure returned by the override that created closure c
Restore(c) ==
  /\ c \in DOMAIN restores
  /\ Len(log) < MaxCalls
  /\ _handlers' = restores[c]
  /\ log' = Append(log, [op |-> "restore", closure |-> c,
                         active |-> _handlers, list |-> arrays[_handlers]])
  /\ call' = [NoCall EXCEPT !.op = "restore", !.closure = c]
  /\ UNCHANGED <<arrays, restores, walk>>

-----------------------------------------------------------------------------
(* Input lines *)

Words == {anchor, idl, foo, partF, dash, optF, optO, flag}

WordSeqs(words, n) == UNION {[1..m -> words] : m \in 0..n}

RECURSIVE Join(_)
Join(ws) ==
  IF ws = <<>> THEN <<>>
  ELSE IF Len(ws) = 1 THEN ws[1]
  ELSE ws[1] \o <<" ">> \o Join(Tail(ws))

Lines(words, n) ==
  {Join(ws) \o sp : ws \in WordSeqs(words, n), sp \in {<<>>, <<" ">>}}

Inputs == Lines(Words, MaxTokens)

\* the lines the registry is probed with
ProbeInputs == {<<>>, dash, flag, foo \o <<" ">>}

-----------------------------------------------------------------------------
(* Specifications *)

\* a completion request for the line the terminal holds
InitCompletion ==
  /\ Constructed
  /\ \E input \in Inputs : call = [NoCall EXCEPT !.op = "pending", !.input = input]

Complete == call.op = "pending" /\ GetCandidates(call.input)

Probe == \E input \in ProbeInputs : GetCandidates(input)

SetH == \E handler \in OverrideHandlers, append \in BOOLEAN :
          TemporarilySetHandlers(handler, append)

SetC == \E candidates \in OverrideCandidates, append \in BOOLEAN :
          TemporarilySetCandidates(candidates, append)

CallRestore == \E c \in DOMAIN restores : Restore(c)

\* completion requests against the registry the constructor built
SpecCompletion == InitCompletion /\ [][Complete]_vars

NextRegistry == Probe \/ SetH \/ SetC \/ CallRestore

\* the registry under overrides, restores and completion requests
SpecRegistry == Init /\ [][NextRegistry]_vars

-----------------------------------------------------------------------------
(* recursivelyGetCandidates, call by call *)

WalkSpecs == {AnchorSpec, AliasSpec}

WalkWords == {anchor, idl, foo, optF, optO, flag}

\* a call recursivelyGetCandidates(obj, i) that has not yet run
Frame(obj, i) ==
  [obj |-> obj, ents |-> <<>>, k |-> 0, i |-> i, candidates |-> <<>>, pc |-> "enter"]

\* the handler built from a specification object is called with (tokens, index)
InitWalk ==
  /\ \E obj \in WalkSpecs, input \in Lines(WalkWords, MaxWalkTokens) :
       /\ arrays = <<(<<ObjectHandler(obj)>>)>>
       /\ walk = [tokens |-> parse(input),
                  index |-> TargetIndex(input, parse(input)),
                  stack |-> <<Frame(obj, 0)>>,
                  done |-> FALSE,
                  result |-> <<>>]
  /\ _handlers = 1
  /\ restores = <<>>
  /\ log = <<>>
  /\ call = NoCall

Top == walk.stack[Len(walk.stack)]

\* the top call returns `value` to its caller, or to the handler
Returning(value) ==
  LET n == Len(walk.stack)
  IN  IF n = 1
      THEN walk' = [walk EXCEPT !.stack = <<>>, !.done = TRUE, !.result = value]
      ELSE walk' = [walk EXCEPT
                      !.stack = [SubSeq(walk.stack, 1, n - 1) EXCEPT
                                   ![n - 1].candidates = @ \o value]]

\* if (i > index) return []
WalkCutoff ==
  /\ walk.stack # <<>>
  /\ Top.pc = "enter"
  /\ Top.i > walk.index
  /\ Returning(<<>>)
  /\ UNCHANGED <<arrays, _handlers, restores, log, call>>

\* the loop starts on the entries of obj
WalkBegin ==
  /\ walk.stack # <<>>
  /\ Top.pc = "enter"
  /\ ~(Top.i > walk.index)
  /\ walk' = [walk EXCEPT !.stack[Len(walk.stack)] =
                [Top EXCEPT !.pc = "loop", !.ents = entries(Top.obj), !.k = 1]]
  /\ UNCHANGED <<arrays, _handlers, restores, log, call>>

\* one iteration that makes no recursive call
WalkEntry ==
  /\ walk.stack # <<>>
  /\ Top.pc = "loop"
  /\ Top.k <= Len(Top.ents)
  /\ LET step == EntryStep(Top.ents[Top.k], Top.obj, Top.i, walk.tokens, walk.index)
     IN  /\ ~step.recurse
         /\ walk' = [walk EXCEPT !.stack[Len(walk.stack)] =
                       [Top EXCEPT !.k = @ + 1,
                                   !.obj = step.obj,
                                   !.candidates = @ \o step.push]]
  /\ UNCHANGED <<arrays, _handlers, restores, log, call>>

\* one iteration that ends in a recursive call
WalkRecurse ==
  /\ walk.stack # <<>>
  /\ Top.pc = "loop"
  /\ Top.k <= Len(Top.ents)
  /\ LET step == EntryStep(Top.ents[Top.k], Top.obj, Top.i, walk.tokens, walk.index)
     IN  /\ step.recurse
         /\ walk' = [walk EXCEPT !.stack =
                       Append([walk.stack EXCEPT ![Len(walk.stack)] =
                                 [Top EXCEPT !.k = @ + 1,
                                             !.obj = step.obj,
                                             !.candidates = @ \o step.push]],
                              Frame(step.into, step.next))]
  /\ UNCHANGED <<arrays, _handlers, restores, log, call>>

\* return candidates
WalkReturn ==
  /\ walk.stack # <<>>
  /\ Top.pc = "loop"
  /\ Top.k > Len(Top.ents)
  /\ Returning(Top.candidates)
  /\ UNCHANGED <<arrays, _handlers, restores, log, call>>

NextWalk == WalkCutoff \/ WalkBegin \/ WalkEntry \/ WalkRecurse \/ WalkReturn

\* the call runs to completion: nothing suspends it
SpecWalk == InitWalk /\ [][NextWalk]_vars /\ WF_vars(NextWalk)

-----------------------------------------------------------------------------
(* Properties *)

Completed == call.op = "getCandidates"

Handlers == arrays[_handlers]

\* the last element of the token stream, empty when there is none
LastToken == At(call.tokens, Len(call.tokens) - 1)

IsLong(c) == startsWith(c, <<"-", "-">>)

IsShort(c) == getIsOption(c) /\ ~IsLong(c)

\* C1: if the last token of the parsed input does not start with '-' (there
\* being no last token included), the result holds no option-like candidate;
\* for { "0": ["foo","bar"], "--flag": {takeValue:false} } and the empty input
\* the result holds "foo" and "bar" and not "--flag".
C1_NoOptionUnlessLastTokenDashed ==
  Completed =>
    /\ ~startsWith(LastToken, <<"-">>) =>
         \A c \in Range(call.ret) : ~getIsOption(c)
    /\ (Handlers = <<ObjectHandler(FlagSpec)>> /\ call.input = <<>>) =>
         /\ {foo, bar} \subseteq Range(call.ret)
         /\ flag \notin Range(call.ret)

\* C2: in every result the option-like candidates come after all the others,
\* and each of the two classes is in ascending locale order.
C2_OptionsLastEachClassAscending ==
  Completed =>
    \A j, k \in DOMAIN call.ret :
      j < k =>
        /\ getIsOption(call.ret[j]) => getIsOption(call.ret[k])
        /\ (getIsOption(call.ret[j]) <=> getIsOption(call.ret[k])) =>
             localeCompare(call.ret[j], call.ret[k]) <= 0

FirstIndex(arr, x) == CHOOSE k \in DOMAIN arr :
                        arr[k] = x /\ \A j \in 1..(k - 1) : arr[j] # x

\* C3: the result holds no entry twice, whichever handlers or branches of a
\* walk produced it; before the sort each candidate stands where it first
\* occurred among the collected ones.
C3_NoDuplicatesFirstOccurrenceKept ==
  Completed =>
    /\ NoDuplicates(call.ret)
    /\ NoDuplicates(call.unique)
    /\ Range(call.unique) = Range(call.collected)
    /\ \A j, k \in DOMAIN call.unique :
         j < k => FirstIndex(call.collected, call.unique[j])
                    < FirstIndex(call.collected, call.unique[k])
    /\ Range(call.ret) \subseteq Range(call.unique)

C3_Witness ==
  /\ Completed
  /\ Len(Handlers) > 1
  /\ ~NoDuplicates(call.collected)
  /\ \E j, k \in DOMAIN call.collected :
       j # k /\ call.collected[j] = call.collected[k]
             /\ call.collected[j] \in Range(call.ret)

Throws(h) == h.kind = "throws"

RECURSIVE OutputsOf(_, _, _)
\* what the handlers hs return for (tokens, index), one after the other
OutputsOf(hs, tokens, index) ==
  IF hs = <<>> THEN <<>>
  ELSE Invoke(Head(hs), tokens, index).out \o OutputsOf(Tail(hs), tokens, index)

\* C4: a throwing handler does not make getCandidates throw; it contributes
\* nothing, the others are called with the same (tokens, index), and the result
\* is built from exactly their candidates, wherever the throwing one stands.
C4_ThrowingHandlerIsolated ==
  Completed =>
    LET others == SelectSeq(Handlers, LAMBDA h : ~Throws(h))
    IN  /\ ~call.threw
        /\ call.collected = OutputsOf(others, call.tokens, call.index)
        /\ call.logged = Len(Handlers) - Len(others)
        /\ Range(call.sorted) = Range(call.collected)
        /\ call.ret = FilterCandidates(call.sorted, call.tokens)

C4_Witness ==
  /\ Completed
  /\ Len(Handlers) = 3
  /\ Throws(Handlers[2])
  /\ call.logged = 1
  /\ \E c \in Range(call.ret) : c \in Range(Handlers[1].candidates)
  /\ \E c \in Range(call.ret) : c \in Range(Handlers[3].candidates)
                                 /\ c \notin Range(Handlers[1].candidates)

\* the last registry call, and the one before it
LastLog == log[Len(log)]

PrevLog == log[Len(log) - 1]

\* the call that created closure c
SetOf(c) == CHOOSE j \in DOMAIN log : log[j].op = "set" /\ log[j].closure = c

\* C5: temporarilySetHandlers or temporarilySetCandidates followed at once by
\* the returned restore leaves the active handler list the very list, with the
\* very contents, that was active before the call.
C5_RestoreRoundTrip ==
  (/\ Len(log) >= 2
   /\ LastLog.op = "restore"
   /\ PrevLog.op = "set"
   /\ LastLog.closure = PrevLog.closure)
  => /\ _handlers = PrevLog.active
     /\ arrays[_handlers] = PrevLog.list

C5_Witness ==
  /\ Len(log) = 4
  /\ <<log[1].op, log[2].op, log[3].op, log[4].op>>
       = <<"set", "restore", "set", "restore">>
  /\ log[2].closure = 1
  /\ log[4].closure = 2
  /\ Len(arrays[2]) = Len(arrays[1]) + 1
  /\ arrays[3][Len(arrays[3])].kind = "candidates"
  /\ arrays[1] # <<>>
  /\ _handlers = 1

\* a tree of subcommands only
RECURSIVE OnlySubcommands(_)
OnlySubcommands(obj) ==
  \A k \in DOMAIN obj :
    /\ ~isInt(obj[k].key)
    /\ ~getIsOption(obj[k].key)
    /\ OnlySubcommands(obj[k].sub)

HasKey(obj, k) == \E j \in DOMAIN obj : obj[j].key = k

RECURSIVE IsPath(_, _)
IsPath(obj, path) ==
  path = <<>> \/ (HasKey(obj, Head(path)) /\ IsPath(Lookup(obj, Head(path)).sub, Tail(path)))

RECURSIVE NodeAt(_, _)
NodeAt(obj, path) ==
  IF path = <<>> THEN obj ELSE NodeAt(Lookup(obj, Head(path)).sub, Tail(path))

Ascending(arr) ==
  \A j, k \in DOMAIN arr : j < k => localeCompare(arr[j], arr[k]) < 0

C7_LongFormNeedsDoubleDash ==
  Completed =>
    /\ (startsWith(LastToken, <<"-">>) /\ ~startsWith(LastToken, <<"-", "-">>)) =>
         /\ \A c \in Range(call.ret) : ~IsLong(c)
         /\ \A c \in Range(call.collected) : IsShort(c) => c \in Range(call.ret)
    /\ LastToken # <<>> =>
         ((\E c \in Range(call.ret) : IsLong(c)) => startsWith(LastToken, <<"-", "-">>))
    /\ startsWith(LastToken, <<"-", "-">>) =>
         \A c \in Range(call.collected) : IsLong(c) => c \in Range(call.ret)

C7_Witness ==
  /\ Completed
  /\ LastToken = dash
  /\ \E c \in Range(call.collected) : IsLong(c)
  /\ \E c \in Range(call.ret) : IsShort(c)
  /\ \A c \in Range(call.ret) : ~IsLong(c)

\* the tokens typed before the one being completed
Typed == slice0(call.tokens, call.index)

\* the option entries of obj that name an alias
Aliased(obj) == {k \in DOMAIN obj : getIsOption(obj[k].key) /\ obj[k].other # <<>>}

SoleObject == Len(Handlers) = 1 /\ Handlers[1].kind = "object"

\* C8 as stated: once option A, whose descriptor names alias B, is among the
\* tokens before the target index, the walk never returns B, for every token
\* sequence, options typed before, between or after the positional arguments.
C8_AliasNeverReturned ==
  (Completed /\ SoleObject) =>
    \A k \in Aliased(Handlers[1].obj) :
      Handlers[1].obj[k].key \in Range(Typed) =>
        Handlers[1].obj[k].other \notin Range(call.collected)

RECURSIVE ScanOptions(_, _, _)
\* from position p of ts, the positions where an option is typed as an option
\* (not as the value of a value-taking option), and where the run of options ends
ScanOptions(obj, ts, p) ==
  IF p > Len(ts) \/ ~getIsOption(ts[p]) THEN [heads |-> {}, stop |-> p]
  ELSE LET tv == HasKey(obj, ts[p]) /\ Lookup(obj, ts[p]).takeValue
           r == ScanOptions(obj, ts, IF tv THEN p + 2 ELSE p + 1)
       IN  [heads |-> r.heads \cup {p}, stop |-> r.stop]

\* option a is typed before the first positional argument
TypedBeforeArgs(obj, ts, a) ==
  \E p \in ScanOptions(obj, ts, 1).heads : ts[p] = a

\* option a is typed after all the positional arguments of the node
TypedAfterArgs(obj, ts, a) ==
  LET s == ScanOptions(obj, ts, 1).stop
      n == argAmount(obj)
  IN  /\ s + n - 1 <= Len(ts)
      /\ \A p \in s..(s + n - 1) : ~getIsOption(ts[p])
      /\ \E p \in ScanOptions(obj, ts, s + n).heads : ts[p] = a

\* C8 as amended: once option A, whose descriptor names alias B, has been typed
\* as an option before the first or after all the positional arguments of its
\* node, the walk never returns B.
C8_AliasSuppressedOutsideArgs ==
  (Completed /\ SoleObject) =>
    \A k \in Aliased(Handlers[1].obj) :
      (\/ TypedBeforeArgs(Handlers[1].obj, Typed, Handlers[1].obj[k].key)
       \/ TypedAfterArgs(Handlers[1].obj, Typed, Handlers[1].obj[k].key))
      => Handlers[1].obj[k].other \notin Range(call.collected)

C8_Witness ==
  /\ Completed
  /\ Handlers = <<ObjectHandler(AliasSpec)>>
  /\ call.tokens = <<foo, foo, optF>>
  /\ call.index = 3
  /\ TypedAfterArgs(AliasSpec, Typed, optF)
  /\ call.collected # <<>>
  /\ flag \notin Range(call.collected)

LogOps == [k \in DOMAIN log |-> <<log[k].op, log[k].closure>>]

\* C9: a restore makes active exactly the list that was active when its own
\* override was made, whatever was set or restored in between; restores in
\* reverse order of their sets bring back the original list, and set(A),
\* set(B), restore of A, restore of B ends with the list of A active, not the
\* original one.
C9_RestoreIsLastWriterWins ==
  /\ (log # <<>> /\ LastLog.op = "restore") =>
       /\ _handlers = log[SetOf(LastLog.closure)].active
       /\ arrays[_handlers] = log[SetOf(LastLog.closure)].list
  /\ LogOps \in {<<(<<"set", 1>>), <<"restore", 1>>>>,
                 <<(<<"set", 1>>), <<"set", 2>>, <<"restore", 2>>, <<"restore", 1>>>>} =>
       /\ _handlers = 1
       /\ arrays[_handlers] = log[1].list
  /\ LogOps = <<(<<"set", 1>>), <<"set", 2>>, <<"restore", 1>>, <<"restore", 2>>>> =>
       /\ _handlers = 2
       /\ _handlers # log[1].active
       /\ arrays[_handlers] # log[1].list
       /\ arrays[_handlers] = log[2].list

C9_Witness ==
  /\ LogOps = <<(<<"set", 1>>), <<"set", 2>>, <<"restore", 1>>, <<"restore", 2>>>>
  /\ arrays[2] = <<HandlerA>>
  /\ arrays[3] = <<HandlerB>>
  /\ arrays[_handlers] = <<HandlerA>>

\* the calls of the walk are nested with strictly increasing offsets, a call
\* past the target index is a leaf, and at most index + 1 calls are nested
\* below the first one
WalkProgress ==
  /\ \A f \in 2..Len(walk.stack) : walk.stack[f].i > walk.stack[f - 1].i
  /\ \A f \in DOMAIN walk.stack :
       walk.stack[f].i > walk.index =>
         walk.stack[f].pc = "enter" /\ f = Len(walk.stack)
  /\ Len(walk.stack) - 1 <= walk.index + 1

\* C10: the walk terminates: every recursive call is made with an offset
\* strictly greater than its caller's, a call with offset > targetIndex returns
\* the empty list without recursing, and so the recursion is at most
\* targetIndex + 1 calls deep.
C10_WalkTerminates == []WalkProgress /\ <>walk.done

C10_Witness ==
  /\ walk.index = 2
  /\ Len(walk.stack) = 4
  /\ walk.stack[4].i = 3
  /\ walk.stack[4].pc = "enter"

=============================================================================
